---- MODULE Spec2Model ----
(***************************************************************************)
(* fast-surface-nets: Naive Surface Nets with optional boundary closure.   *)
(*                                                                         *)
(* u32 values are held as their two's-complement residues: a value below   *)
(* 2^31 stands for itself and 2^32 - k stands as -k, so u32::MAX is -1 and *)
(* wrapping u32 arithmetic on the small values used here is plain integer  *)
(* arithmetic.  f32 values are held as exact rationals [n, d] (vectors as  *)
(* [n |-> <<a, b, c>>, d |-> den]); the samples are small integers.        *)
(* Rust vectors are sequences: element i of a Vec is seq[i + 1].           *)
(***************************************************************************)
EXTENDS Integers, Sequences, FiniteSets, TLC

VARIABLES output, call, outcome, prior, ncalls, overflow_checks

vars == <<output, call, outcome, prior, ncalls, overflow_checks>>

-----------------------------------------------------------------------------
(* Small helpers.                                                          *)

Abs(a) == IF a < 0 THEN -a ELSE a

RECURSIVE GcdNat(_, _)
GcdNat(a, b) == IF b = 0 THEN a ELSE GcdNat(b, a % b)

Gcd(a, b) == GcdNat(Abs(a), Abs(b))

Lcm(a, b) == (a * b) \div Gcd(a, b)

\* Element i (0-based, a usize) of a Rust slice.
At(s, i) == s[i + 1]

\* A checked slice index is in bounds.
InBounds(s, i) == i >= 0 /\ i < Len(s)

\* The values a `lo..hi` loop over small unsigned values takes, in order.
RangeSeq(lo, hi) == [i \in 1..(hi - lo) |-> lo + i - 1]

\* Unsigned order of two u32 residues.
ULess(a, b) == IF (a < 0) = (b < 0) THEN a < b ELSE b < 0

\* A vector with a common denominator, reduced.
Reduce(v) ==
    LET g == Gcd(Gcd(Gcd(v.d, v.n[1]), v.n[2]), v.n[3])
    IN  [n |-> <<v.n[1] \div g, v.n[2] \div g, v.n[3] \div g>>, d |-> v.d \div g]

VAdd(u, v) ==
    Reduce([n |-> <<u.n[1] * v.d + v.n[1] * u.d,
                    u.n[2] * v.d + v.n[2] * u.d,
                    u.n[3] * v.d + v.n[3] * u.d>>,
            d |-> u.d * v.d])

\* An integer vector as an f32 vector.
VInt(p) == [n |-> p, d |-> 1]

-----------------------------------------------------------------------------
(* The program's constants.                                                *)

NULL_VERTEX == -1

CUBE_CORNERS ==
    << <<0, 0, 0>>, <<1, 0, 0>>, <<0, 1, 0>>, <<1, 1, 0>>,
       <<0, 0, 1>>, <<1, 0, 1>>, <<0, 1, 1>>, <<1, 1, 1>> >>

CUBE_CORNER_VECTORS == [i \in 1..8 |-> CUBE_CORNERS[i]]

\* Corner numbers are 0-based as in the source.
CUBE_EDGES ==
    << <<0, 1>>, <<0, 2>>, <<0, 4>>, <<1, 3>>, <<1, 5>>, <<2, 3>>,
       <<2, 6>>, <<3, 7>>, <<4, 5>>, <<4, 6>>, <<5, 7>>, <<6, 7>> >>

\* The eval-max-plane feature switched on.
eval_max_plane_on == TRUE

\* cfg!(feature = "eval-max-plane"): off by default.
eval_max_plane == FALSE

\* A variant that counts a zero sample as negative.
is_non_positive(d) == d <= 0

\* SignedDistance for f32.
is_negative(d) == d < 0

\* SurfaceNetsConfig::default().
DefaultConfig == [generate_boundary_faces |-> FALSE]

\* SurfaceNetsBuffer::default().
DefaultBuffer ==
    [positions |-> <<>>, normals |-> <<>>, indices |-> <<>>,
     surface_points |-> <<>>, surface_strides |-> <<>>, stride_to_index |-> <<>>]

-----------------------------------------------------------------------------
(* The shape: ndshape's row-major 3D shapes, dimensions dims = <<X, Y, Z>>. *)
(* linearize adds with `+` and multiplies with wrapping_mul.               *)

linearize(dims, p) == p[1] + dims[1] * p[2] + dims[1] * dims[2] * p[3]

delinearize(dims, i) ==
    LET z == i \div (dims[1] * dims[2])
        r == i % (dims[1] * dims[2])
    IN  <<r % dims[1], r \div dims[1], z>>

-----------------------------------------------------------------------------
(* SurfaceNetsBuffer::reset.  Vec::resize truncates, or appends the fill   *)
(* value to the new tail only: the elements that stay keep their values.   *)

resize(v, n, fill) ==
    [i \in 1..n |-> IF i <= Len(v) THEN v[i] ELSE fill]

reset(buf, array_size) ==
    [positions |-> <<>>, normals |-> <<>>, indices |-> <<>>,
     surface_points |-> <<>>, surface_strides |-> <<>>,
     stride_to_index |-> resize(buf.stride_to_index, array_size, NULL_VERTEX)]

-----------------------------------------------------------------------------
(* The kernel of one cube.                                                 *)

\* The point between two corners where the interpolated field is zero:
\* interp2 * corner1 + interp1 * corner2 with interp1 = v1 / (v1 - v2).
estimate_surface_edge_intersection(corner1, corner2, value1, value2) ==
    LET den == value1 - value2
        c1 == CUBE_CORNER_VECTORS[corner1 + 1]
        c2 == CUBE_CORNER_VECTORS[corner2 + 1]
        num == [k \in 1..3 |-> (den - value1) * c1[k] + value1 * c2[k]]
    IN  IF den < 0
        THEN [n |-> <<-num[1], -num[2], -num[3]>>, d |-> -den]
        ELSE [n |-> <<num[1], num[2], num[3]>>, d |-> den]

\* Edge k of CUBE_EDGES crosses the surface.
Crosses(dists, k) ==
    (At(dists, CUBE_EDGES[k][1]) < 0) # (At(dists, CUBE_EDGES[k][2]) < 0)

\* What one pass of the loop over CUBE_EDGES adds to sum: the intersection
\* on a crossing edge, nothing otherwise.
EdgePoint(dists, k) ==
    IF Crosses(dists, k)
    THEN estimate_surface_edge_intersection(
            CUBE_EDGES[k][1], CUBE_EDGES[k][2],
            At(dists, CUBE_EDGES[k][1]), At(dists, CUBE_EDGES[k][2]))
    ELSE [n |-> <<0, 0, 0>>, d |-> 1]

\* A common denominator of twelve vectors.
CommonDenominator(pts) ==
    Lcm(Lcm(Lcm(Lcm(pts[1].d, pts[2].d), Lcm(pts[3].d, pts[4].d)),
            Lcm(Lcm(pts[5].d, pts[6].d), Lcm(pts[7].d, pts[8].d))),
        Lcm(Lcm(pts[9].d, pts[10].d), Lcm(pts[11].d, pts[12].d)))

\* Component c of the sum of twelve vectors, over the denominator den.
SumComponent(pts, den, c) ==
      ( ( (pts[1].n[c] * (den \div pts[1].d) + pts[2].n[c] * (den \div pts[2].d))
        + (pts[3].n[c] * (den \div pts[3].d) + pts[4].n[c] * (den \div pts[4].d)) )
      + ( (pts[5].n[c] * (den \div pts[5].d) + pts[6].n[c] * (den \div pts[6].d))
        + (pts[7].n[c] * (den \div pts[7].d) + pts[8].n[c] * (den \div pts[8].d)) ) )
    + ( (pts[9].n[c] * (den \div pts[9].d) + pts[10].n[c] * (den \div pts[10].d))
      + (pts[11].n[c] * (den \div pts[11].d) + pts[12].n[c] * (den \div pts[12].d)) )

\* sum / count as f32, with sum held over the denominator den.
Mean(pts, den, count) ==
    Reduce([n |-> <<SumComponent(pts, den, 1), SumComponent(pts, den, 2),
                    SumComponent(pts, den, 3)>>,
            d |-> den * count])

\* The loop over the twelve CUBE_EDGES, written out: count is the number of
\* crossing edges and sum the sum of their intersections.
centroid_of_edge_intersections(dists) ==
    Mean([k \in 1..12 |-> EdgePoint(dists, k)],
         CommonDenominator([k \in 1..12 |-> EdgePoint(dists, k)]),
         Cardinality({k \in 1..12 : Crosses(dists, k)}))

\* Bilinear interpolation of the edge differences; s is the centroid.
sdf_gradient(dists, s) ==
    LET D(i) == At(dists, i)
        p00 == <<D(1), D(2), D(4)>>
        n00 == <<D(0), D(0), D(0)>>
        p10 == <<D(5), D(3), D(6)>>
        n10 == <<D(4), D(1), D(2)>>
        p01 == <<D(3), D(6), D(5)>>
        n01 == <<D(2), D(4), D(1)>>
        p11 == <<D(7), D(7), D(7)>>
        n11 == <<D(6), D(5), D(3)>>
        sn  == s.n
        ng  == <<s.d - s.n[1], s.d - s.n[2], s.d - s.n[3]>>
        yzx(v) == <<v[2], v[3], v[1]>>
        zxy(v) == <<v[3], v[1], v[2]>>
        g == [k \in 1..3 |->
                yzx(ng)[k] * zxy(ng)[k] * (p00[k] - n00[k])
              + yzx(ng)[k] * zxy(sn)[k] * (p10[k] - n10[k])
              + yzx(sn)[k] * zxy(ng)[k] * (p01[k] - n01[k])
              + yzx(sn)[k] * zxy(sn)[k] * (p11[k] - n11[k])]
    IN  Reduce([n |-> <<g[1], g[2], g[3]>>, d |-> s.d * s.d])

-----------------------------------------------------------------------------
(* A run of a call: the buffer so far and how the run stands.  "panic" is  *)
(* a Rust panic (checked index, arithmetic overflow check); "ub" is an     *)
(* unchecked read outside the sample slice, after which nothing is known.  *)

Ok(buf) == [buf |-> buf, status |-> "ok"]

Stop(buf, why) == [buf |-> buf, status |-> why]

\* A variant of corner_stride that steps two lattice points to a corner.
CornerStride_doubled(dims, min_corner_stride, i) ==
    min_corner_stride + 2 * linearize(dims, CUBE_CORNERS[i])

\* corner_stride of corner i (1..8) of the cube at min_corner_stride.
CornerStride(dims, min_corner_stride, i) ==
    min_corner_stride + linearize(dims, CUBE_CORNERS[i])

\* The pushes of estimate_surface_in_cube for a cube with centroid c.
PushVertex(p, corner_dists, c, buf) ==
    [buf |-> [buf EXCEPT
                !.positions = Append(@, VAdd(VInt(p), c)),
                !.normals = Append(@, sdf_gradient(corner_dists, c))],
     hit |-> TRUE, ub |-> FALSE]

\* estimate_surface_in_cube once the corner distances are read.
CubeVertex(p, corner_dists, num_negative, buf) ==
    IF num_negative = 0 \/ num_negative = 8
    THEN [buf |-> buf, hit |-> FALSE, ub |-> FALSE]
    ELSE PushVertex(p, corner_dists, centroid_of_edge_intersections(corner_dists), buf)

\* estimate_surface_in_cube: the cube's vertex, if it has one.
\* p is the minimal corner, min_corner_stride its stride.
estimate_surface_in_cube(sdf, dims, p, min_corner_stride, buf) ==
    IF \E i \in 1..8 : ~InBounds(sdf, CornerStride(dims, min_corner_stride, i))
    THEN [buf |-> buf, hit |-> FALSE, ub |-> TRUE]
    ELSE CubeVertex(p,
                    [i \in 1..8 |-> At(sdf, CornerStride(dims, min_corner_stride, i))],
                    Cardinality({i \in 1..8 :
                        is_negative(At(sdf, CornerStride(dims, min_corner_stride, i)))}),
                    buf)

\* A variant of RecordCube that writes nothing for a cube without a vertex.
RecordCube_no_sentinel(pt, stride, r) ==
    IF r.ub THEN Stop(r.buf, "ub")
    ELSE IF ~InBounds(r.buf.stride_to_index, stride) THEN Stop(r.buf, "panic")
    ELSE IF r.hit
    THEN Ok([r.buf EXCEPT
                !.stride_to_index[stride + 1] = Len(r.buf.positions) - 1,
                !.surface_points = Append(@, pt),
                !.surface_strides = Append(@, stride)])
    ELSE Ok(r.buf)

\* What estimate_surface does with the result r of estimate_surface_in_cube
\* for the cube at pt.
RecordCube(pt, stride, r) ==
    IF r.ub THEN Stop(r.buf, "ub")
    ELSE IF ~InBounds(r.buf.stride_to_index, stride) THEN Stop(r.buf, "panic")
    ELSE IF r.hit
    THEN Ok([r.buf EXCEPT
                !.stride_to_index[stride + 1] = Len(r.buf.positions) - 1,
                !.surface_points = Append(@, pt),
                !.surface_strides = Append(@, stride)])
    ELSE Ok([r.buf EXCEPT !.stride_to_index[stride + 1] = NULL_VERTEX])

\* The body of estimate_surface's loops for the cube at point pt.
EstimateCube(sdf, dims, pt, run) ==
    IF run.status # "ok" THEN run
    ELSE RecordCube(pt, linearize(dims, pt),
                    estimate_surface_in_cube(sdf, dims, pt, linearize(dims, pt), run.buf))

\* The cubes of `for z in minz..maxz { for y in miny..maxy { for x in minx..maxx`,
\* in iteration order.
CubeLoop(min, max) ==
    LET xs == RangeSeq(min[1], max[1])
        ys == RangeSeq(min[2], max[2])
        zs == RangeSeq(min[3], max[3])
        nx == Len(xs)
        ny == Len(ys)
    IN  [k \in 1..(nx * ny * Len(zs)) |->
            <<xs[((k - 1) % nx) + 1],
              ys[(((k - 1) \div nx) % ny) + 1],
              zs[((k - 1) \div (nx * ny)) + 1]>>]

\* The loop over cubes[lo..hi], in order; the run is taken through the first
\* half and then through the second.
RECURSIVE EstimateFrom(_, _, _, _, _, _)
EstimateFrom(sdf, dims, cubes, lo, hi, run) ==
    IF run.status # "ok" \/ lo > hi THEN run
    ELSE IF lo = hi THEN EstimateCube(sdf, dims, cubes[lo], run)
    ELSE EstimateFrom(sdf, dims, cubes, ((lo + hi) \div 2) + 1, hi,
                      EstimateFrom(sdf, dims, cubes, lo, (lo + hi) \div 2, run))

estimate_surface(sdf, dims, min, max, run) ==
    LET cubes == CubeLoop(min, max)
    IN  IF run.status # "ok" THEN run
        ELSE EstimateFrom(sdf, dims, cubes, 1, Len(cubes), run)

-----------------------------------------------------------------------------
(* Quad emission.                                                          *)

\* A vector's numerators over the denominator den (a multiple of its own).
Scaled(v, den) == [k \in 1..3 |-> v.n[k] * (den \div v.d)]

\* A variant of the comparison that is not strict.
DistanceSquaredLess_or_equal(pos1, pos4, pos2, pos3) ==
    LET den == Lcm(Lcm(pos1.d, pos4.d), Lcm(pos2.d, pos3.d))
        a == Scaled(pos1, den)
        b == Scaled(pos4, den)
        c == Scaled(pos2, den)
        e == Scaled(pos3, den)
        sq(u, v) == (u[1] - v[1]) * (u[1] - v[1]) + (u[2] - v[2]) * (u[2] - v[2])
                    + (u[3] - v[3]) * (u[3] - v[3])
    IN  sq(a, b) <= sq(c, e)

\* pos1.distance_squared(pos4) < pos2.distance_squared(pos3)
DistanceSquaredLess(pos1, pos4, pos2, pos3) ==
    LET den == Lcm(Lcm(pos1.d, pos4.d), Lcm(pos2.d, pos3.d))
        a == Scaled(pos1, den)
        b == Scaled(pos4, den)
        c == Scaled(pos2, den)
        e == Scaled(pos3, den)
        sq(u, v) == (u[1] - v[1]) * (u[1] - v[1]) + (u[2] - v[2]) * (u[2] - v[2])
                    + (u[3] - v[3]) * (u[3] - v[3])
    IN  sq(a, b) < sq(c, e)

\* A variant of maybe_make_quad that takes the face for negative when d1 is.
maybe_make_quad_flipped(sdf, stride_to_index, positions, p1, p2, axis_b_stride, axis_c_stride, indices) ==
    IF ~InBounds(sdf, p1) \/ ~InBounds(sdf, p2)
    THEN [indices |-> indices, status |-> "ub"]
    ELSE
    LET d1 == At(sdf, p1)
        d2 == At(sdf, p2)
    IN  IF is_negative(d1) = is_negative(d2)
        THEN [indices |-> indices, status |-> "ok"]
        ELSE
        LET negative_face == is_negative(d1)
            s1 == p1
            s2 == p1 - axis_b_stride
            s3 == p1 - axis_c_stride
            s4 == p1 - axis_b_stride - axis_c_stride
        IN  IF \E s \in {s1, s2, s3, s4} : ~InBounds(stride_to_index, s)
            THEN [indices |-> indices, status |-> "panic"]
            ELSE
            LET v1 == At(stride_to_index, s1)
                v2 == At(stride_to_index, s2)
                v3 == At(stride_to_index, s3)
                v4 == At(stride_to_index, s4)
            IN  IF \E v \in {v1, v2, v3, v4} : ~InBounds(positions, v)
                THEN [indices |-> indices, status |-> "panic"]
                ELSE
                LET quad ==
                      IF DistanceSquaredLess(At(positions, v1), At(positions, v4),
                                             At(positions, v2), At(positions, v3))
                      THEN IF negative_face
                           THEN <<v1, v4, v2, v1, v3, v4>>
                           ELSE <<v1, v2, v4, v1, v4, v3>>
                      ELSE IF negative_face
                           THEN <<v2, v3, v4, v2, v1, v3>>
                           ELSE <<v2, v4, v3, v2, v3, v1>>
                IN  [indices |-> indices \o quad, status |-> "ok"]

\* maybe_make_quad for the edge p1 -> p2; gives the indices and the run's status.
maybe_make_quad(sdf, stride_to_index, positions, p1, p2, axis_b_stride, axis_c_stride, indices) ==
    IF ~InBounds(sdf, p1) \/ ~InBounds(sdf, p2)
    THEN [indices |-> indices, status |-> "ub"]
    ELSE
    LET d1 == At(sdf, p1)
        d2 == At(sdf, p2)
    IN  IF is_negative(d1) = is_negative(d2)
        THEN [indices |-> indices, status |-> "ok"]
        ELSE
        LET negative_face == ~is_negative(d1)
            s1 == p1
            s2 == p1 - axis_b_stride
            s3 == p1 - axis_c_stride
            s4 == p1 - axis_b_stride - axis_c_stride
        IN  IF \E s \in {s1, s2, s3, s4} : ~InBounds(stride_to_index, s)
            THEN [indices |-> indices, status |-> "panic"]
            ELSE
            LET v1 == At(stride_to_index, s1)
                v2 == At(stride_to_index, s2)
                v3 == At(stride_to_index, s3)
                v4 == At(stride_to_index, s4)
            IN  IF \E v \in {v1, v2, v3, v4} : ~InBounds(positions, v)
                THEN [indices |-> indices, status |-> "panic"]
                ELSE
                LET quad ==
                      IF DistanceSquaredLess(At(positions, v1), At(positions, v4),
                                             At(positions, v2), At(positions, v3))
                      THEN IF negative_face
                           THEN <<v1, v4, v2, v1, v3, v4>>
                           ELSE <<v1, v2, v4, v1, v4, v3>>
                      ELSE IF negative_face
                           THEN <<v2, v3, v4, v2, v1, v3>>
                           ELSE <<v2, v4, v3, v2, v3, v1>>
                IN  [indices |-> indices \o quad, status |-> "ok"]

\* One maybe_make_quad call of make_all_quads, on the run.
QuadStep(sdf, run, p1, p2, axis_b_stride, axis_c_stride) ==
    IF run.status # "ok" THEN run
    ELSE
    LET r == maybe_make_quad(sdf, run.buf.stride_to_index, run.buf.positions,
                             p1, p2, axis_b_stride, axis_c_stride, run.buf.indices)
    IN  [buf |-> [run.buf EXCEPT !.indices = r.indices], status |-> r.status]

\* xyz_strides[a] of make_all_quads.
AxisStride(dims, a) == linearize(dims, [k \in 1..3 |-> IF k = a THEN 1 ELSE 0])

\* One `if ... { maybe_make_quad(...) }` of make_all_quads' loop body: the
\* edges parallel with axis a, with b and c the next two axes in cyclic order.
QuadsOnAxis(sdf, dims, min, max, pt, p_stride, a, b, c, run) ==
    IF run.status = "ok" /\ pt[b] # min[b] /\ pt[c] # min[c]
       /\ (eval_max_plane \/ pt[a] # max[a] - 1)
    THEN QuadStep(sdf, run, p_stride, p_stride + AxisStride(dims, a),
                  AxisStride(dims, b), AxisStride(dims, c))
    ELSE run

\* The body of make_all_quads' loop for surface point pt with stride p_stride.
\* A surface point has pt[k] < max[k], so `max - 1` cannot underflow here.
QuadsOfPoint(sdf, dims, min, max, pt, p_stride, run) ==
    QuadsOnAxis(sdf, dims, min, max, pt, p_stride, 3, 1, 2,
        QuadsOnAxis(sdf, dims, min, max, pt, p_stride, 2, 3, 1,
            QuadsOnAxis(sdf, dims, min, max, pt, p_stride, 1, 2, 3, run)))

\* The loop over points[lo..hi], in order, by halves.
RECURSIVE QuadsFrom(_, _, _, _, _, _, _, _, _)
QuadsFrom(sdf, dims, min, max, points, strides, lo, hi, run) ==
    IF run.status # "ok" \/ lo > hi THEN run
    ELSE IF lo = hi
    THEN QuadsOfPoint(sdf, dims, min, max, points[lo], strides[lo], run)
    ELSE QuadsFrom(sdf, dims, min, max, points, strides, ((lo + hi) \div 2) + 1, hi,
                   QuadsFrom(sdf, dims, min, max, points, strides, lo,
                             (lo + hi) \div 2, run))

make_all_quads(sdf, dims, min, max, run) ==
    IF run.status # "ok" THEN run
    ELSE QuadsFrom(sdf, dims, min, max, run.buf.surface_points,
                   run.buf.surface_strides, 1, Len(run.buf.surface_points), run)

-----------------------------------------------------------------------------
(* Boundary closure.                                                       *)

\* |pos[k] - boundary_pos[k]| < 0.001 on the three axes.
NearPosition(pos, boundary_pos) ==
    \A k \in 1..3 :
        Abs(pos.n[k] * boundary_pos.d - boundary_pos.n[k] * pos.d) * 1000
            < pos.d * boundary_pos.d

\* A variant of the if-chain that tries the Y planes before the X planes.
BoundaryCase_y_first(pt, min, max) ==
    IF pt[2] = min[2] THEN 3
    ELSE IF pt[2] = max[2] - 1 THEN 4
    ELSE IF pt[1] = min[1] THEN 1
    ELSE IF pt[1] = max[1] - 1 THEN 2
    ELSE IF pt[3] = min[3] THEN 5
    ELSE 6

\* The plane a boundary cube is put on: the first that matches, in the
\* order of the source's if-chain.  1..6 = min-X, max-X, min-Y, max-Y, min-Z, max-Z.
BoundaryCase(pt, min, max) ==
    IF pt[1] = min[1] THEN 1
    ELSE IF pt[1] = max[1] - 1 THEN 2
    ELSE IF pt[2] = min[2] THEN 3
    ELSE IF pt[2] = max[2] - 1 THEN 4
    ELSE IF pt[3] = min[3] THEN 5
    ELSE 6

\* boundary_pos, in halves: (max - 1) as f32 + 1.0 is max.
BoundaryPos(pt, min, max) ==
    LET k == BoundaryCase(pt, min, max)
        hx == 2 * pt[1] + 1
        hy == 2 * pt[2] + 1
        hz == 2 * pt[3] + 1
    IN  Reduce([n |-> CASE k = 1 -> <<2 * min[1], hy, hz>>
                        [] k = 2 -> <<2 * (max[1] - 1) + 2, hy, hz>>
                        [] k = 3 -> <<hx, 2 * min[2], hz>>
                        [] k = 4 -> <<hx, 2 * (max[2] - 1) + 2, hz>>
                        [] k = 5 -> <<hx, hy, 2 * min[3]>>
                        [] OTHER -> <<hx, hy, 2 * (max[3] - 1) + 2>>,
                d |-> 2])

BoundaryNormal(pt, min, max) ==
    LET k == BoundaryCase(pt, min, max)
    IN  VInt(CASE k = 1 -> <<-1, 0, 0>>
               [] k = 2 -> <<1, 0, 0>>
               [] k = 3 -> <<0, -1, 0>>
               [] k = 4 -> <<0, 1, 0>>
               [] k = 5 -> <<0, 0, -1>>
               [] OTHER -> <<0, 0, 1>>)

\* A variant of the loop body that pushes no normal for a new boundary vertex.
BoundaryVertex_no_normal(sdf, dims, min, max, pt, run) ==
    IF run.status # "ok" THEN run
    ELSE
    LET buf == run.buf
        is_boundary ==
            \/ pt[1] = min[1] \/ pt[1] = max[1] - 1
            \/ pt[2] = min[2] \/ pt[2] = max[2] - 1
            \/ pt[3] = min[3] \/ pt[3] = max[3] - 1
        stride == linearize(dims, pt)
    IN  IF ~is_boundary THEN run
        ELSE IF ~InBounds(buf.stride_to_index, stride) THEN Stop(buf, "panic")
        ELSE IF At(buf.stride_to_index, stride) # NULL_VERTEX THEN run
        ELSE IF ~InBounds(sdf, stride) THEN Stop(buf, "ub")
        ELSE IF ~is_negative(At(sdf, stride)) THEN run
        ELSE
        LET boundary_pos == BoundaryPos(pt, min, max)
            near == {i \in 1..Len(buf.positions) :
                        NearPosition(buf.positions[i], boundary_pos)}
        IN  IF near # {}
            THEN \* reuse the first existing vertex at this position
                 LET first == CHOOSE i \in near : \A j \in near : i <= j
                 IN  Ok([buf EXCEPT !.stride_to_index[stride + 1] = first - 1])
            ELSE Ok([buf EXCEPT
                        !.positions = Append(@, boundary_pos),
                        !.surface_points = Append(@, pt),
                        !.surface_strides = Append(@, stride),
                        !.stride_to_index[stride + 1] = Len(buf.positions)])

\* The body of generate_boundary_vertices' loops for the cube at pt.
\* Inside the loops every max[k] is at least 1, so `max - 1` does not underflow.
BoundaryVertex(sdf, dims, min, max, pt, run) ==
    IF run.status # "ok" THEN run
    ELSE
    LET buf == run.buf
        is_boundary ==
            \/ pt[1] = min[1] \/ pt[1] = max[1] - 1
            \/ pt[2] = min[2] \/ pt[2] = max[2] - 1
            \/ pt[3] = min[3] \/ pt[3] = max[3] - 1
        stride == linearize(dims, pt)
    IN  IF ~is_boundary THEN run
        ELSE IF ~InBounds(buf.stride_to_index, stride) THEN Stop(buf, "panic")
        ELSE IF At(buf.stride_to_index, stride) # NULL_VERTEX THEN run
        ELSE IF ~InBounds(sdf, stride) THEN Stop(buf, "ub")
        ELSE IF ~is_negative(At(sdf, stride)) THEN run
        ELSE
        LET boundary_pos == BoundaryPos(pt, min, max)
            near == {i \in 1..Len(buf.positions) :
                        NearPosition(buf.positions[i], boundary_pos)}
        IN  IF near # {}
            THEN \* reuse the first existing vertex at this position
                 LET first == CHOOSE i \in near : \A j \in near : i <= j
                 IN  Ok([buf EXCEPT !.stride_to_index[stride + 1] = first - 1])
            ELSE Ok([buf EXCEPT
                        !.positions = Append(@, boundary_pos),
                        !.normals = Append(@, BoundaryNormal(pt, min, max)),
                        !.surface_points = Append(@, pt),
                        !.surface_strides = Append(@, stride),
                        !.stride_to_index[stride + 1] = Len(buf.positions)])

\* The loop over cubes[lo..hi], in order, by halves.
RECURSIVE BoundaryVerticesFrom(_, _, _, _, _, _, _, _)
BoundaryVerticesFrom(sdf, dims, min, max, cubes, lo, hi, run) ==
    IF run.status # "ok" \/ lo > hi THEN run
    ELSE IF lo = hi THEN BoundaryVertex(sdf, dims, min, max, cubes[lo], run)
    ELSE BoundaryVerticesFrom(sdf, dims, min, max, cubes, ((lo + hi) \div 2) + 1, hi,
                              BoundaryVerticesFrom(sdf, dims, min, max, cubes, lo,
                                                   (lo + hi) \div 2, run))

\* The first loop of the function fills a local map that nothing reads.
generate_boundary_vertices(sdf, dims, min, max, run) ==
    LET cubes == CubeLoop(min, max)
    IN  IF run.status # "ok" THEN run
        ELSE BoundaryVerticesFrom(sdf, dims, min, max, cubes, 1, Len(cubes), run)

\* `hi` of a loop `lo..hi` whose bound was computed as `max - 1`: when the
\* subtraction wrapped, hi is u32::MAX and the loop has 2^32 - 1 - lo values.
\* Each pass of the body indexes stride_to_index, checked, at a stride that
\* grows with the loop variable, so such a loop cannot get past its first
\* Len(stride_to_index) + 2 values without a panic; only those are listed.
LoopRange(lo, hi, len) ==
    IF hi < 0 THEN RangeSeq(lo, lo + len + 2) ELSE RangeSeq(lo, hi)

\* One unit quad of a boundary plane: the indices it appends.  The corner
\* strides are s = <<s00, s01, s10, s11>>; first_winding picks
\* [v00, v01, v10] [v01, v11, v10], else the mirror image.
BoundaryQuad(stride_to_index, s, first_winding) ==
    LET v00 == At(stride_to_index, s[1])
        v01 == At(stride_to_index, s[2])
        v10 == At(stride_to_index, s[3])
        v11 == At(stride_to_index, s[4])
    IN  IF v00 # NULL_VERTEX /\ v01 # NULL_VERTEX
           /\ v10 # NULL_VERTEX /\ v11 # NULL_VERTEX
        THEN IF first_winding
             THEN <<v00, v01, v10, v01, v11, v10>>
             ELSE <<v00, v10, v01, v01, v10, v11>>
        ELSE <<>>

\* stride_00, stride_01, stride_10, stride_11 of the pass with outer loop
\* variable o and inner loop variable i: (z, y) on an x plane, (z, x) on a y
\* plane, (y, x) on a z plane.
PlaneStrides(dims, axis, plane, o, i) ==
    CASE axis = 1 -> <<linearize(dims, <<plane, i, o>>),
                       linearize(dims, <<plane, i, o + 1>>),
                       linearize(dims, <<plane, i + 1, o>>),
                       linearize(dims, <<plane, i + 1, o + 1>>)>>
      [] axis = 2 -> <<linearize(dims, <<i, plane, o>>),
                       linearize(dims, <<i, plane, o + 1>>),
                       linearize(dims, <<i + 1, plane, o>>),
                       linearize(dims, <<i + 1, plane, o + 1>>)>>
      [] OTHER    -> <<linearize(dims, <<i, o, plane>>),
                       linearize(dims, <<i, o + 1, plane>>),
                       linearize(dims, <<i + 1, o, plane>>),
                       linearize(dims, <<i + 1, o + 1, plane>>)>>

\* The two nested loops of a make_boundary_faces_* function:
\* `for o in omin..(omax - 1) { for i in imin..(imax - 1) { ... } }`.
\* `max - 1` on max = 0 panics when overflow checks are compiled in, and wraps
\* otherwise; the inner bound is computed only when the outer loop runs.
\* The loops read stride_to_index and only append to indices, so the passes
\* of the body are laid out side by side: pass k runs unless an earlier pass
\* indexed stride_to_index out of bounds, which is a panic.
BoundaryPlaneLoops(run, omin, omax, imin, imax, dims, axis, plane, first_winding) ==
    IF run.status # "ok" THEN run
    ELSE IF omax = 0 /\ overflow_checks THEN Stop(run.buf, "panic")
    ELSE
    LET sti == run.buf.stride_to_index
        outer == LoopRange(omin, omax - 1, Len(sti))
    IN  IF outer = <<>> THEN run
        ELSE IF imax = 0 /\ overflow_checks THEN Stop(run.buf, "panic")
        ELSE
        LET inner == LoopRange(imin, imax - 1, Len(sti))
            ni == Len(inner)
            S(k) == PlaneStrides(dims, axis, plane, outer[((k - 1) \div ni) + 1],
                                 inner[((k - 1) % ni) + 1])
            bad == {k \in 1..(Len(outer) * ni) :
                        \E j \in 1..4 : ~InBounds(sti, S(k)[j])}
            last == IF bad = {} THEN Len(outer) * ni
                    ELSE (CHOOSE k \in bad : \A m \in bad : k <= m) - 1
            quads == SelectSeq([k \in 1..last |-> BoundaryQuad(sti, S(k), first_winding)],
                               LAMBDA q : q # <<>>)
            appended == [j \in 1..(6 * Len(quads)) |->
                            quads[((j - 1) \div 6) + 1][((j - 1) % 6) + 1]]
        IN  [buf |-> [run.buf EXCEPT !.indices = @ \o appended],
             status |-> IF bad = {} THEN "ok" ELSE "panic"]

make_boundary_faces_x(sdf, dims, min, max, x_plane, run) ==
    LET is_min_face == x_plane = min[1]
    IN  BoundaryPlaneLoops(run, min[3], max[3], min[2], max[2], dims, 1, x_plane,
                           is_min_face)

make_boundary_faces_y(sdf, dims, min, max, y_plane, run) ==
    LET is_min_face == y_plane = min[2]
    IN  BoundaryPlaneLoops(run, min[3], max[3], min[1], max[1], dims, 2, y_plane,
                           ~is_min_face)

make_boundary_faces_z(sdf, dims, min, max, z_plane, run) ==
    LET is_min_face == z_plane = min[3]
    IN  BoundaryPlaneLoops(run, min[2], max[2], min[1], max[1], dims, 3, z_plane,
                           is_min_face)

\* The call make_boundary_faces_*(..., max - 1, output) on axis a: the
\* argument `max - 1` panics on max = 0 when overflow checks are compiled in.
MaxFaces(sdf, dims, min, max, a, run) ==
    IF run.status # "ok" THEN run
    ELSE IF max[a] = 0 /\ overflow_checks THEN Stop(run.buf, "panic")
    ELSE IF a = 1 THEN make_boundary_faces_x(sdf, dims, min, max, max[1] - 1, run)
    ELSE IF a = 2 THEN make_boundary_faces_y(sdf, dims, min, max, max[2] - 1, run)
    ELSE make_boundary_faces_z(sdf, dims, min, max, max[3] - 1, run)

make_boundary_faces(sdf, dims, min, max, run) ==
    MaxFaces(sdf, dims, min, max, 3,
      make_boundary_faces_z(sdf, dims, min, max, min[3],
        MaxFaces(sdf, dims, min, max, 2,
          make_boundary_faces_y(sdf, dims, min, max, min[2],
            MaxFaces(sdf, dims, min, max, 1,
              make_boundary_faces_x(sdf, dims, min, max, min[1],
                generate_boundary_vertices(sdf, dims, min, max, run)))))))

-----------------------------------------------------------------------------
(* The entry points.  A failed entry check leaves the buffer as it was.    *)

\* A variant of the entry checks that also rejects a range with no cube.
PreconditionsHold_nonempty(sdf, dims, min, max) ==
    /\ ~ULess(linearize(dims, max), linearize(dims, min))
    /\ linearize(dims, max) >= 0
    /\ linearize(dims, max) < Len(sdf)
    /\ \A i \in 1..3 : min[i] < max[i]

PreconditionsHold(sdf, dims, min, max) ==
    /\ ~ULess(linearize(dims, max), linearize(dims, min))
    /\ linearize(dims, max) >= 0
    /\ linearize(dims, max) < Len(sdf)

\* A variant of the boundary stage that starts from an empty index list.
BoundaryStage_replacing(sdf, dims, min, max, config, run) ==
    IF run.status = "ok" /\ config.generate_boundary_faces
    THEN make_boundary_faces(sdf, dims, min, max,
                             [run EXCEPT !.buf.indices = <<>>])
    ELSE run

\* `if config.generate_boundary_faces { make_boundary_faces(...) }`.
BoundaryStage(sdf, dims, min, max, config, run) ==
    IF run.status = "ok" /\ config.generate_boundary_faces
    THEN make_boundary_faces(sdf, dims, min, max, run)
    ELSE run

\* A variant that resets the buffer before the entry checks.
surface_nets_with_config_reset_first(sdf, dims, min, max, config, buf) ==
    IF ~PreconditionsHold(sdf, dims, min, max)
    THEN Stop(reset(buf, Len(sdf)), "aborted")
    ELSE
    LET r1 == estimate_surface(sdf, dims, min, max, Ok(reset(buf, Len(sdf))))
    IN  IF r1.status # "ok" THEN r1
        ELSE BoundaryStage(sdf, dims, min, max, config,
                           make_all_quads(sdf, dims, min, max, r1))

surface_nets_with_config(sdf, dims, min, max, config, buf) ==
    IF ~PreconditionsHold(sdf, dims, min, max)
    THEN Stop(buf, "aborted")
    ELSE
    LET r1 == estimate_surface(sdf, dims, min, max, Ok(reset(buf, Len(sdf))))
    IN  IF r1.status # "ok" THEN r1
        ELSE BoundaryStage(sdf, dims, min, max, config,
                           make_all_quads(sdf, dims, min, max, r1))

surface_nets(sdf, dims, min, max, buf) ==
    surface_nets_with_config(sdf, dims, min, max, DefaultConfig, buf)

-----------------------------------------------------------------------------
(* The callers' inputs.  Sample arrays are laid out by the shape; every    *)
(* min and max is a coordinate of the shape, the domain on which a shape   *)
(* defines linearize.                                                      *)

\* The number of calls made on one buffer.
MaxCalls == 2

SampleValue(name, p) ==
    CASE name = "point"   -> IF p = <<1, 1, 1>> THEN -1 ELSE 1
      [] name = "inside"  -> -1
      [] name = "outside" -> 1
      [] name = "slab"    -> IF p[1] = 0 THEN 0 ELSE -1
      [] name = "skew"    -> ((p[1] + 2 * p[2] + 4 * p[3] + p[1] * p[3]) % 4) - 1
      [] name = "ledge"   -> IF p[1] <= 1 THEN 0 ELSE -1
      [] name = "checker" -> IF (p[1] + p[2] + p[3]) % 2 = 0 THEN -1 ELSE 2
      [] OTHER            -> ((3 * p[1] + 5 * p[2] + 7 * p[3] + p[1] * p[2] * p[3]) % 5) - 2

Field(name, dims) ==
    [i \in 1..(dims[1] * dims[2] * dims[3]) |-> SampleValue(name, delinearize(dims, i - 1))]

\* A sample slice one element shorter than the shape.
ShortField(name, dims) ==
    SubSeq(Field(name, dims), 1, dims[1] * dims[2] * dims[3] - 1)

Cube3 == <<3, 3, 3>>

Box433 == <<4, 3, 3>>

\* Calls on a reused buffer take their samples and ranges from these.
ReuseSamples ==
    {Field("slab", Cube3), Field("inside", Cube3), ShortField("mixed", Cube3)}

ReuseRanges ==
    { << <<0, 0, 0>>, <<2, 2, 2>> >>,
      << <<0, 0, 0>>, <<1, 1, 1>> >>,
      << <<1, 0, 0>>, <<1, 2, 2>> >>,
      << <<0, 0, 0>>, <<0, 0, 0>> >>,
      << <<1, 1, 1>>, <<0, 0, 0>> >> }

\* Single calls on a fresh buffer: <<sdf, dims>>, and every min in {0, 1}^3
\* with every max of the shape.
FieldNames == {"point", "inside", "outside", "slab", "ledge", "checker", "skew", "mixed"}

MeshSamples ==
    {<<Field(n, d), d>> : n \in FieldNames, d \in {Cube3, Box433}}
        \cup {<<ShortField("mixed", Cube3), Cube3>>}

MeshRanges(dims) ==
    {<< <<a, b, c>>, <<x, y, z>> >> :
        a \in 0..1, b \in 0..1, c \in 0..1,
        x \in 0..(dims[1] - 1), y \in 0..(dims[2] - 1), z \in 0..(dims[3] - 1)}

Configs == {[generate_boundary_faces |-> b] : b \in BOOLEAN}

NoCall == [sdf |-> <<>>, dims |-> <<1, 1, 1>>, min |-> <<0, 0, 0>>,
           max |-> <<0, 0, 0>>, config |-> DefaultConfig]

-----------------------------------------------------------------------------
(* The state machine: one caller-owned buffer and the calls made on it.    *)

Init ==
    /\ output = DefaultBuffer
    /\ prior = DefaultBuffer
    /\ call = NoCall
    /\ outcome = "none"
    /\ ncalls = 0
    /\ overflow_checks \in BOOLEAN

\* The effect of one call on the state.
Called(sdf, dims, min, max, config, r) ==
    /\ output' = r.buf
    /\ outcome' = IF r.status = "ok" THEN "returned" ELSE r.status
    /\ prior' = output
    /\ call' = [sdf |-> sdf, dims |-> dims, min |-> min, max |-> max, config |-> config]
    /\ ncalls' = ncalls + 1
    /\ UNCHANGED overflow_checks

SurfaceNets ==
    /\ ncalls < MaxCalls
    /\ outcome # "ub"
    /\ \E sdf \in ReuseSamples, rg \in ReuseRanges :
          Called(sdf, Cube3, rg[1], rg[2], DefaultConfig,
                 surface_nets(sdf, Cube3, rg[1], rg[2], output))

SurfaceNetsWithConfig ==
    /\ ncalls < MaxCalls
    /\ outcome # "ub"
    /\ \E sdf \in ReuseSamples, rg \in ReuseRanges, config \in Configs :
          Called(sdf, Cube3, rg[1], rg[2], config,
                 surface_nets_with_config(sdf, Cube3, rg[1], rg[2], config, output))

Next == SurfaceNets \/ SurfaceNetsWithConfig

Spec == Init /\ [][Next]_vars

\* One call on a default-constructed buffer, over the wider inputs.
MeshOnce ==
    /\ ncalls = 0
    /\ \E sd \in MeshSamples :
       \E rg \in MeshRanges(sd[2]) :
          Called(sd[1], sd[2], rg[1], rg[2], DefaultConfig,
                 surface_nets(sd[1], sd[2], rg[1], rg[2], output))

MeshOnceWithConfig ==
    /\ ncalls = 0
    /\ \E sd \in MeshSamples, config \in Configs :
       \E rg \in MeshRanges(sd[2]) :
          Called(sd[1], sd[2], rg[1], rg[2], config,
                 surface_nets_with_config(sd[1], sd[2], rg[1], rg[2], config, output))

NextCall == MeshOnce \/ MeshOnceWithConfig

SpecCall == Init /\ [][NextCall]_vars

-----------------------------------------------------------------------------
(* Properties of the calls.                                                *)

\* The two conditions checked on entry, as the caller sees them.
CheckedPreconditions ==
    /\ linearize(call.dims, call.min) <= linearize(call.dims, call.max)
    /\ linearize(call.dims, call.max) < Len(call.sdf)

Returned == ncalls > 0 /\ outcome = "returned"

\* C1: on a buffer used for any sequence of calls, every call that returns
\* leaves every element of indices strictly less than positions.len().
C1_IndicesBelowPositionsLen ==
    Returned =>
        \A i \in 1..Len(output.indices) : InBounds(output.positions, output.indices[i])

\* C2: every call whose arguments satisfy both checked preconditions returns
\* normally, with or without boundary faces: no panic, no underflow of
\* `max - 1`, no index out of range.
C2_ChecksPassedReturns ==
    (ncalls > 0 /\ CheckedPreconditions) => outcome = "returned"

\* C3: when linearize(min) > linearize(max) or linearize(max) >= samples.len(),
\* either entry point aborts with all six buffer fields exactly as they were
\* before the call: no reset and no partial output.
C3_AbortLeavesBufferUntouched ==
    (ncalls > 0 /\ ~CheckedPreconditions) => (outcome = "aborted" /\ output = prior)

\* An inverted range given with a buffer that holds an earlier mesh.
C3_AbortOnFilledBuffer ==
    /\ ncalls > 0
    /\ linearize(call.dims, call.min) > linearize(call.dims, call.max)
    /\ outcome = "aborted"
    /\ Len(prior.positions) > 0
    /\ Len(prior.indices) > 0
    /\ \E i \in 1..Len(prior.stride_to_index) : prior.stride_to_index[i] # NULL_VERTEX

\* The cube lattice [min, max) of the call has no cube.
EmptyRange == \E i \in 1..3 : call.min[i] >= call.max[i]

\* C4 (as stated): a call aborts whenever min[i] > max[i] on some axis or
\* [min, max) contains no cube, as well as when the range extends past the
\* sample array.
C4_AbortsOnEmptyOrInvertedRange ==
    (ncalls > 0 /\ (EmptyRange \/ linearize(call.dims, call.max) >= Len(call.sdf)))
        => outcome # "returned"

\* C4 (amended): a call fails its entry checks exactly when
\* linearize(min) > linearize(max) or linearize(max) >= samples.len(); a range
\* that is empty or inverted on an axis and passes both checks is accepted,
\* and without boundary faces the call returns an empty mesh.
C4_AbortsExactlyOnFailedChecks ==
    ncalls > 0 =>
        /\ (outcome = "aborted") <=> ~CheckedPreconditions
        /\ (CheckedPreconditions /\ EmptyRange /\ ~call.config.generate_boundary_faces)
              => /\ outcome = "returned"
                 /\ output.positions = <<>>
                 /\ output.indices = <<>>

\* A range inverted on an axis whose call returned.
C4_InvertedRangeReturned ==
    /\ ncalls > 0
    /\ \E i \in 1..3 : call.min[i] > call.max[i]
    /\ outcome = "returned"

\* C5: after every returning call on a reused buffer, stride_to_index has
\* length samples.len() and every entry is NULL_VERTEX or a valid index into
\* this call's positions; a call that produces no vertex leaves it entirely
\* sentinel.
C5_StrideToIndexSentinelOrValid ==
    Returned =>
        /\ Len(output.stride_to_index) = Len(call.sdf)
        /\ \A i \in 1..Len(output.stride_to_index) :
              \/ output.stride_to_index[i] = NULL_VERTEX
              \/ InBounds(output.positions, output.stride_to_index[i])

\* What the current call leaves on a default-constructed buffer.
OnDefaultBuffer ==
    surface_nets_with_config(call.sdf, call.dims, call.min, call.max, call.config,
                             DefaultBuffer)

\* C6: the mesh a call produces depends only on its arguments: whatever the
\* buffer held before, the call leaves positions, normals, indices,
\* surface_points and surface_strides identical to what it leaves on a
\* default-constructed buffer.
C6_MeshIndependentOfPriorBuffer ==
    Returned =>
        /\ OnDefaultBuffer.status = "ok"
        /\ output.positions = OnDefaultBuffer.buf.positions
        /\ output.normals = OnDefaultBuffer.buf.normals
        /\ output.indices = OnDefaultBuffer.buf.indices
        /\ output.surface_points = OnDefaultBuffer.buf.surface_points
        /\ output.surface_strides = OnDefaultBuffer.buf.surface_strides

\* The cubes of the half-open lattice [min, max) of the call.
RangeCubes ==
    {<<x, y, z>> : x \in call.min[1]..(call.max[1] - 1),
                   y \in call.min[2]..(call.max[2] - 1),
                   z \in call.min[3]..(call.max[3] - 1)}

\* The corners of the cube at p whose sample is strictly negative.
NegativeCorners(p) ==
    {c \in (0..1) \X (0..1) \X (0..1) :
        call.sdf[linearize(call.dims, <<p[1] + c[1], p[2] + c[2], p[3] + c[3]>>) + 1] < 0}

SurfaceCubeSet == {p \in RangeCubes : Cardinality(NegativeCorners(p)) \in 1..7}

\* p comes before q in z-outer, y, x-inner iteration order.
IterationBefore(p, q) ==
    \/ p[3] < q[3]
    \/ p[3] = q[3] /\ p[2] < q[2]
    \/ p[3] = q[3] /\ p[2] = q[2] /\ p[1] < q[1]

\* The position lies in the closed unit cube at p.
InCube(pos, p) ==
    \A k \in 1..3 : p[k] * pos.d <= pos.n[k] /\ pos.n[k] <= (p[k] + 1) * pos.d

\* C7: with boundary closure disabled, positions.len() == normals.len() == the
\* number of surface cubes of [min, max): a cube gets exactly one vertex iff
\* between 1 and 7 of its corners have a strictly negative sample (zero is
\* non-negative), and vertices appear in z-outer, y, x-inner order.
C7_OneVertexPerSurfaceCube ==
    (Returned /\ ~call.config.generate_boundary_faces) =>
        /\ Len(output.positions) = Cardinality(SurfaceCubeSet)
        /\ Len(output.normals) = Cardinality(SurfaceCubeSet)
        /\ Len(output.surface_points) = Cardinality(SurfaceCubeSet)
        /\ {output.surface_points[i] : i \in 1..Len(output.surface_points)} = SurfaceCubeSet
        /\ \A i, j \in 1..Len(output.surface_points) :
              i < j => IterationBefore(output.surface_points[i], output.surface_points[j])
        /\ \A i \in 1..Len(output.positions) :
              InCube(output.positions[i], output.surface_points[i])

\* A call without boundary closure whose range holds a surface cube with zero
\* and negative samples only, and a cube that is no surface cube.
C7_ZeroSampleSurfaceCube ==
    /\ Returned
    /\ ~call.config.generate_boundary_faces
    /\ \E p \in SurfaceCubeSet :
          /\ \A c \in (0..1) \X (0..1) \X (0..1) :
                call.sdf[linearize(call.dims, <<p[1] + c[1], p[2] + c[2], p[3] + c[3]>>) + 1] <= 0
          /\ \E i \in 1..Len(output.surface_points) : output.surface_points[i] = p
    /\ RangeCubes \ SurfaceCubeSet # {}
    /\ Len(output.positions) > 1

\* C8: after every returning call, for every i < surface_points.len(),
\* surface_strides[i] == linearize(surface_points[i]) and
\* stride_to_index[surface_strides[i]] == i; with boundary closure disabled,
\* stride_to_index is NULL_VERTEX at the stride of every cube of [min, max)
\* that is not a surface cube.
C8_StridesAndReverseMapAgree ==
    Returned =>
        /\ \A i \in 1..Len(output.surface_points) :
              /\ i <= Len(output.surface_strides)
              /\ output.surface_strides[i] = linearize(call.dims, output.surface_points[i])
              /\ InBounds(output.stride_to_index, output.surface_strides[i])
              /\ At(output.stride_to_index, output.surface_strides[i]) = i - 1
        /\ ~call.config.generate_boundary_faces =>
              \A p \in RangeCubes \ SurfaceCubeSet :
                  At(output.stride_to_index, linearize(call.dims, p)) = NULL_VERTEX

\* A call without boundary closure that found surface cubes, on a buffer whose
\* reverse map held a vertex at a cube that is no surface cube now.
C8_FormerVertexCleared ==
    /\ Returned
    /\ ~call.config.generate_boundary_faces
    /\ Len(output.surface_points) > 0
    /\ \E p \in RangeCubes \ SurfaceCubeSet :
          /\ InBounds(prior.stride_to_index, linearize(call.dims, p))
          /\ At(prior.stride_to_index, linearize(call.dims, p)) # NULL_VERTEX

\* C9: after every returning call, with or without boundary closure,
\* indices.len() is a multiple of 3, positions.len() == normals.len(),
\* surface_points.len() == surface_strides.len(), and surface_points.len() <=
\* positions.len(), with equality when boundary closure is disabled.
C9_BufferLengths ==
    Returned =>
        /\ Len(output.indices) % 3 = 0
        /\ Len(output.positions) = Len(output.normals)
        /\ Len(output.surface_points) = Len(output.surface_strides)
        /\ Len(output.surface_points) <= Len(output.positions)
        /\ ~call.config.generate_boundary_faces =>
              Len(output.surface_points) = Len(output.positions)

\* A call with boundary closure that added boundary vertices and faces.
C9_BoundaryVerticesAdded ==
    /\ Returned
    /\ call.config.generate_boundary_faces
    /\ Len(output.positions) > Cardinality(SurfaceCubeSet)
    /\ Len(output.indices) > 0

\* The unit step along axis a.
UnitStep(a) == [k \in 1..3 |-> IF k = a THEN 1 ELSE 0]

Minus(p, q) == [k \in 1..3 |-> p[k] - q[k]]

SampleAt(p) == call.sdf[linearize(call.dims, p) + 1]

\* The lattice edge from cube corner p to its +a neighbour has endpoint samples
\* of different sign.
SignChange(p, a) ==
    (SampleAt(p) < 0) # (SampleAt([k \in 1..3 |-> p[k] + UnitStep(a)[k]]) < 0)

\* The edges <<p, a>> that qualify: both orthogonal coordinates above min, the
\* coordinate along a not in the last cube layer.
QualifyingEdges ==
    {e \in RangeCubes \X (1..3) :
        /\ SignChange(e[1], e[2])
        /\ \A b \in (1..3) \ {e[2]} : e[1][b] > call.min[b]
        /\ e[1][e[2]] # call.max[e[2]] - 1}

\* The four cubes around the edge <<p, a>>.
CubesAround(e) ==
    LET b == CHOOSE k \in (1..3) \ {e[2]} : \A j \in (1..3) \ {e[2]} : k <= j
        c == CHOOSE k \in (1..3) \ {e[2]} : \A j \in (1..3) \ {e[2]} : k >= j
    IN  {e[1], Minus(e[1], UnitStep(b)), Minus(e[1], UnitStep(c)),
         Minus(Minus(e[1], UnitStep(b)), UnitStep(c))}

\* The cubes whose vertices the k-th group of six indices names.
QuadCubes(k) ==
    {output.surface_points[output.indices[i] + 1] : i \in (6 * k - 5)..(6 * k)}

\* C10: with the eval-max-plane flag off, the quad pass appends exactly one
\* quad (six indices) for each lattice edge from the minimum corner of a cube
\* of [min, max) to its +A neighbour whose endpoint samples differ in sign,
\* whose two orthogonal coordinates are strictly greater than min and whose
\* coordinate along A is not max_A - 1, and nothing for any other edge.
C10_OneQuadPerQualifyingEdge ==
    (ncalls > 0 /\ CheckedPreconditions /\ ~call.config.generate_boundary_faces) =>
        /\ outcome = "returned"
        /\ Len(output.indices) = 6 * Cardinality(QualifyingEdges)
        /\ \A i \in 1..Len(output.indices) : InBounds(output.surface_points, output.indices[i])
        /\ {QuadCubes(k) : k \in 1..(Len(output.indices) \div 6)}
              = {CubesAround(e) : e \in QualifyingEdges}

\* A call whose range holds an edge that gets a quad, a sign-changing edge in
\* the last cube layer along its axis, and a sign-changing edge on a min face.
C10_QuadsAndExcludedEdges ==
    /\ Returned
    /\ ~call.config.generate_boundary_faces
    /\ QualifyingEdges # {}
    /\ \E e \in RangeCubes \X (1..3) :
          /\ SignChange(e[1], e[2])
          /\ \A b \in (1..3) \ {e[2]} : e[1][b] > call.min[b]
          /\ e[1][e[2]] = call.max[e[2]] - 1
    /\ \E e \in RangeCubes \X (1..3) :
          /\ SignChange(e[1], e[2])
          /\ \E b \in (1..3) \ {e[2]} : e[1][b] = call.min[b]

\* The call's range is not inverted on any axis.
ProperRange == \A k \in 1..3 : call.min[k] <= call.max[k]

\* The splits <<a, s>> of the call's range into two chunks that share the
\* cube layer s of axis a: chunk A is [min, max with max_a = s + 1], chunk B
\* is [min with min_a = s, max], so B.min_a = A.max_a - 1.
ChunkSplits == {e \in (1..3) \X (0..3) : call.min[e[1]] <= e[2] /\ e[2] < call.max[e[1]]}

ChunkAMax(e) == [k \in 1..3 |-> IF k = e[1] THEN e[2] + 1 ELSE call.max[k]]

ChunkBMin(e) == [k \in 1..3 |-> IF k = e[1] THEN e[2] ELSE call.min[k]]

\* A chunk of the call's field meshed on its own buffer, closure disabled.
ChunkMesh(min, max) == surface_nets(call.sdf, call.dims, min, max, DefaultBuffer)

\* The cubes of the shared layer of a split.
SharedLayer(e) == {p \in RangeCubes : p[e[1]] = e[2]}

\* The index (1-based) of cube p among a mesh's surface points, 0 if none.
VertexOf(buf, p) ==
    IF \E i \in 1..Len(buf.surface_points) : buf.surface_points[i] = p
    THEN CHOOSE i \in 1..Len(buf.surface_points) : buf.surface_points[i] = p
    ELSE 0

\* The lattice edges that got a quad in a mesh, each as the set of the four
\* cubes around it (which names the edge).
QuadEdges(buf) ==
    {{buf.surface_points[buf.indices[i] + 1] : i \in (6 * k - 5)..(6 * k)} :
        k \in 1..(Len(buf.indices) \div 6)}

\* The two chunks of a split agree on the shared layer and tile the quads.
ChunksTile(a, b, e) ==
    /\ a.status = "ok" /\ b.status = "ok"
    /\ \A p \in SharedLayer(e) :
          /\ (VertexOf(a.buf, p) = 0) = (VertexOf(b.buf, p) = 0)
          /\ (VertexOf(a.buf, p) = 0) = (p \notin SurfaceCubeSet)
          /\ VertexOf(a.buf, p) # 0 =>
                /\ a.buf.positions[VertexOf(a.buf, p)] = b.buf.positions[VertexOf(b.buf, p)]
                /\ a.buf.normals[VertexOf(a.buf, p)] = b.buf.normals[VertexOf(b.buf, p)]
    /\ QuadEdges(a.buf) \cap QuadEdges(b.buf) = {}
    /\ QuadEdges(a.buf) \cup QuadEdges(b.buf) = QuadEdges(output)
    /\ Len(a.buf.indices) + Len(b.buf.indices) = Len(output.indices)

\* C11: two chunks of one field, meshed with boundary closure disabled, whose
\* ranges overlap by exactly one cube layer along one axis: every cube of the
\* shared layer is classified the same and gets the same vertex in both, and
\* the lattice edges that get a quad in A and in B are disjoint and together
\* are the edges that get a quad when the union range is meshed in one call.
C11_ChunksTileSeamlessly ==
    (Returned /\ ~call.config.generate_boundary_faces /\ ProperRange) =>
        \A e \in ChunkSplits :
            ChunksTile(ChunkMesh(call.min, ChunkAMax(e)),
                       ChunkMesh(ChunkBMin(e), call.max), e)

\* A split with two cubes across in each chunk, a vertex in the shared layer,
\* quads in both chunks and a sign change along the split axis inside the
\* shared layer, where chunk B has the edge and chunk A leaves it out.
C11_QuadsOnBothSidesOfSharedLayer ==
    /\ Returned
    /\ ~call.config.generate_boundary_faces
    /\ ProperRange
    /\ \E e \in ChunkSplits :
          /\ call.min[e[1]] < e[2]
          /\ e[2] + 1 < call.max[e[1]]
          /\ SharedLayer(e) \cap SurfaceCubeSet # {}
          /\ QuadEdges(ChunkMesh(call.min, ChunkAMax(e)).buf) # {}
          /\ QuadEdges(ChunkMesh(ChunkBMin(e), call.max).buf) # {}
          /\ \E q \in QualifyingEdges : q[2] = e[1] /\ q[1][e[1]] = e[2]

\* The axes B and C of an edge along axis a: the next two in cyclic order.
AxisB(a) == (a % 3) + 1

AxisC(a) == ((a + 1) % 3) + 1

\* The k-th group of six indices.
Sextuple(k) == [i \in 1..6 |-> output.indices[6 * (k - 1) + i]]

\* The edge the k-th quad was emitted for.
EdgeOfQuad(k) == CHOOSE e \in QualifyingEdges : CubesAround(e) = QuadCubes(k)

\* v1 = vertex(p), v2 = vertex(p - s_B), v3 = vertex(p - s_C),
\* v4 = vertex(p - s_B - s_C) of the edge e = <<p, a>>, as indices.
QuadVertices(e) ==
    <<VertexOf(output, e[1]) - 1,
      VertexOf(output, Minus(e[1], UnitStep(AxisB(e[2])))) - 1,
      VertexOf(output, Minus(e[1], UnitStep(AxisC(e[2])))) - 1,
      VertexOf(output, Minus(Minus(e[1], UnitStep(AxisB(e[2]))), UnitStep(AxisC(e[2])))) - 1>>

\* d1 < 0 and d2 >= 0 at the endpoints p and p + s_A of the edge.
PositiveOrientation(e) ==
    SampleAt(e[1]) < 0 /\ SampleAt([k \in 1..3 |-> e[1][k] + UnitStep(e[2])[k]]) >= 0

NegativeOrientation(e) ==
    SampleAt(e[1]) >= 0 /\ SampleAt([k \in 1..3 |-> e[1][k] + UnitStep(e[2])[k]]) < 0

\* The squared distance of two positions, in units of 1 / den^2, for a common
\* multiple den of their denominators.
DistSqNum(u, v, den) ==
    (u.n[1] * (den \div u.d) - v.n[1] * (den \div v.d))
        * (u.n[1] * (den \div u.d) - v.n[1] * (den \div v.d))
  + (u.n[2] * (den \div u.d) - v.n[2] * (den \div v.d))
        * (u.n[2] * (den \div u.d) - v.n[2] * (den \div v.d))
  + (u.n[3] * (den \div u.d) - v.n[3] * (den \div v.d))
        * (u.n[3] * (den \div u.d) - v.n[3] * (den \div v.d))

\* A common multiple of the denominators of the positions of v1..v4.
QuadDenominator(v) ==
    Lcm(Lcm(output.positions[v[1] + 1].d, output.positions[v[2] + 1].d),
        Lcm(output.positions[v[3] + 1].d, output.positions[v[4] + 1].d))

\* |pos1 - pos4|^2 < |pos2 - pos3|^2 for the vertices v = <<v1, v2, v3, v4>>.
Diagonal14Shorter(v) ==
    DistSqNum(output.positions[v[1] + 1], output.positions[v[4] + 1], QuadDenominator(v))
        < DistSqNum(output.positions[v[2] + 1], output.positions[v[3] + 1], QuadDenominator(v))

\* The table of index sextuples by diagonal and orientation.
TableRow(diagonal14, positive, v) ==
    IF diagonal14
    THEN IF positive THEN <<v[1], v[2], v[4], v[1], v[4], v[3]>>
                     ELSE <<v[1], v[4], v[2], v[1], v[3], v[4]>>
    ELSE IF positive THEN <<v[2], v[4], v[3], v[2], v[3], v[1]>>
                     ELSE <<v[2], v[3], v[4], v[2], v[1], v[3]>>

\* The triangle t goes round the cycle cyc (four distinct vertices) forwards.
FollowsCycle(t, cyc) ==
    LET at(x) == CHOOSE i \in 1..4 : cyc[i] = x
    IN  /\ \A j \in 1..3 : \E i \in 1..4 : cyc[i] = t[j]
        /\ \/ at(t[1]) < at(t[2]) /\ at(t[2]) < at(t[3])
           \/ at(t[2]) < at(t[3]) /\ at(t[3]) < at(t[1])
           \/ at(t[3]) < at(t[1]) /\ at(t[1]) < at(t[2])

\* The quad's six indices are the table row of its edge, and both triangles
\* go round v1 v3 v4 v2 for a negative face and v1 v2 v4 v3 for a positive one.
QuadFollowsTable(six, e, v) ==
    /\ PositiveOrientation(e) # NegativeOrientation(e)
    /\ six = TableRow(Diagonal14Shorter(v), PositiveOrientation(e), v)
    /\ LET cyc == IF PositiveOrientation(e) THEN <<v[1], v[2], v[4], v[3]>>
                                            ELSE <<v[1], v[3], v[4], v[2]>>
       IN  /\ FollowsCycle(<<six[1], six[2], six[3]>>, cyc)
           /\ FollowsCycle(<<six[4], six[5], six[6]>>, cyc)

\* C12: for every quad emitted for an edge with endpoint samples d1 (at p) and
\* d2 (at p + s_A), the orientation is positive when d1 < 0 and d2 >= 0 and
\* negative when d1 >= 0 and d2 < 0, and the six indices appended are the row
\* of the table for (diagonal, orientation); the cyclic winding is the same
\* for both diagonal choices and reversed between positive and negative.
C12_QuadIndicesFollowTable ==
    (Returned /\ ~call.config.generate_boundary_faces) =>
        \A k \in 1..(Len(output.indices) \div 6) :
            /\ \E e \in QualifyingEdges : CubesAround(e) = QuadCubes(k)
            /\ QuadFollowsTable(Sextuple(k), EdgeOfQuad(k), QuadVertices(EdgeOfQuad(k)))

\* A mesh with quads of all four table rows.
C12_AllFourRowsEmitted ==
    /\ Returned
    /\ ~call.config.generate_boundary_faces
    /\ \A d \in BOOLEAN, o \in BOOLEAN :
          \E k \in 1..(Len(output.indices) \div 6) :
              /\ Diagonal14Shorter(QuadVertices(EdgeOfQuad(k))) = d
              /\ PositiveOrientation(EdgeOfQuad(k)) = o

\* The vertices both triangles of the k-th quad contain.
SharedVertices(k) ==
    {Sextuple(k)[i] : i \in 1..3} \cap {Sextuple(k)[i] : i \in 4..6}

\* |pos2 - pos3|^2 < |pos1 - pos4|^2 for the vertices v = <<v1, v2, v3, v4>>.
Diagonal23Shorter(v) ==
    DistSqNum(output.positions[v[2] + 1], output.positions[v[3] + 1], QuadDenominator(v))
        < DistSqNum(output.positions[v[1] + 1], output.positions[v[4] + 1], QuadDenominator(v))

\* The quad with six indices shared by its triangles as `shared` is split
\* along the shorter diagonal of v, and along v2-v3 on a tie.
SplitAlongShorter(shared, v) ==
    /\ Cardinality(shared) = 2
    /\ (shared = {v[1], v[4]}) <=> Diagonal14Shorter(v)
    /\ (shared = {v[2], v[3]}) <=> ~Diagonal14Shorter(v)
    /\ (shared = {v[1], v[4]}) => ~Diagonal23Shorter(v)
    /\ (shared = {v[2], v[3]}) => ~Diagonal14Shorter(v)

\* C13: for every emitted dual quad, both triangles contain both endpoints of
\* the shorter diagonal: the quad is split along v1-v4 iff |pos1-pos4|^2 is
\* strictly less than |pos2-pos3|^2, and along v2-v3 otherwise, so on a tie
\* the split is along v2-v3 and the shared diagonal is never the strictly
\* longer one.
C13_SplitAlongShorterDiagonal ==
    (Returned /\ ~call.config.generate_boundary_faces) =>
        \A k \in 1..(Len(output.indices) \div 6) :
            SplitAlongShorter(SharedVertices(k), QuadVertices(EdgeOfQuad(k)))

\* A mesh with a quad whose 1-4 diagonal is strictly shorter and split along
\* v1-v4, and a quad whose diagonals are equally long, split along v2-v3.
C13_UnequalAndEqualDiagonals ==
    /\ Returned
    /\ ~call.config.generate_boundary_faces
    /\ \E k \in 1..(Len(output.indices) \div 6) :
          /\ Diagonal14Shorter(QuadVertices(EdgeOfQuad(k)))
          /\ SharedVertices(k) = {QuadVertices(EdgeOfQuad(k))[1], QuadVertices(EdgeOfQuad(k))[4]}
    /\ \E k \in 1..(Len(output.indices) \div 6) :
          /\ ~Diagonal14Shorter(QuadVertices(EdgeOfQuad(k)))
          /\ ~Diagonal23Shorter(QuadVertices(EdgeOfQuad(k)))
          /\ SharedVertices(k) = {QuadVertices(EdgeOfQuad(k))[2], QuadVertices(EdgeOfQuad(k))[3]}

\* The lattice points of the closed box [min, max] of the call.
RangePoints ==
    {<<x, y, z>> : x \in call.min[1]..call.max[1],
                   y \in call.min[2]..call.max[2],
                   z \in call.min[3]..call.max[3]}

\* The field is strictly negative at every lattice point of [min, max].
InteriorBox == \A p \in RangePoints : SampleAt(p) < 0

\* The number of triangles of the index list.
NumTriangles == Len(output.indices) \div 3

\* The directed edges of triangle k, as <<k, j, from, to>> for its side j.
TriangleSides(k) ==
    {<<k, j, output.indices[3 * (k - 1) + j], output.indices[3 * (k - 1) + (j % 3) + 1]>> :
        j \in 1..3}

AllSides == UNION {TriangleSides(k) : k \in 1..NumTriangles}

\* The sides that go from vertex a to vertex b.
SidesFromTo(a, b) == {s \in AllSides : s[3] = a /\ s[4] = b}

\* Every undirected edge of the triangle list is shared by exactly two
\* triangles, which traverse it in opposite directions.
Watertight ==
    \A s \in AllSides :
        /\ s[3] # s[4]
        /\ Cardinality(SidesFromTo(s[3], s[4])) = 1
        /\ Cardinality(SidesFromTo(s[4], s[3])) = 1

\* C14: with generate_boundary_faces = true and a field that is strictly
\* negative at every lattice point of [min, max], for any range that contains
\* at least one cube, the resulting mesh is watertight: every undirected edge
\* of the triangle list is shared by exactly two triangles, which traverse it
\* in opposite directions.
C14_InteriorBoxWatertight ==
    (ncalls > 0 /\ CheckedPreconditions /\ call.config.generate_boundary_faces
        /\ RangeCubes # {} /\ InteriorBox) =>
        (outcome = "returned" /\ Watertight)

\* A position in half units; the positions of boundary vertices are
\* multiples of one half.
Twice(pos) == [k \in 1..3 |-> (2 * pos.n[k]) \div pos.d]

\* The corners of triangle t, in index order, in half units.
Corner(t, j) == Twice(output.positions[output.indices[3 * (t - 1) + j] + 1])

Cross(u, v) ==
    <<u[2] * v[3] - u[3] * v[2], u[3] * v[1] - u[1] * v[3], u[1] * v[2] - u[2] * v[1]>>

Dot(u, v) == u[1] * v[1] + u[2] * v[2] + u[3] * v[3]

\* The geometric normal of triangle t: the cross product of its edge vectors
\* from the first corner.
GeometricNormal(t) ==
    Cross(Minus(Corner(t, 2), Corner(t, 1)), Minus(Corner(t, 3), Corner(t, 1)))

\* Three times the vector from the centre of the box [min, max] to the
\* centroid of triangle t, in half units.
FromBoxCentre(t) ==
    [k \in 1..3 |-> Corner(t, 1)[k] + Corner(t, 2)[k] + Corner(t, 3)[k]
                    - 3 * (call.min[k] + call.max[k])]

\* The number of unit quads of a boundary plane orthogonal to axis a: the
\* loops run over min..(max - 1) on the two other axes.
PlaneQuads(a) ==
    LET n(k) == IF call.max[k] - call.min[k] > 1 THEN call.max[k] - call.min[k] - 1 ELSE 0
    IN  n(AxisB(a)) * n(AxisC(a))

\* The six passes in call order, as <<axis, side>>: side -1 is the min plane.
PlanePasses == << <<1, -1>>, <<1, 1>>, <<2, -1>>, <<2, 1>>, <<3, -1>>, <<3, 1>> >>

\* The number of quads of the passes before pass i, on an interior box.
QuadsBeforePass(i) ==
    CASE i = 1 -> 0
      [] i = 2 -> PlaneQuads(1)
      [] i = 3 -> 2 * PlaneQuads(1)
      [] i = 4 -> 2 * PlaneQuads(1) + PlaneQuads(2)
      [] i = 5 -> 2 * PlaneQuads(1) + 2 * PlaneQuads(2)
      [] i = 6 -> 2 * PlaneQuads(1) + 2 * PlaneQuads(2) + PlaneQuads(3)
      [] OTHER -> 2 * PlaneQuads(1) + 2 * PlaneQuads(2) + 2 * PlaneQuads(3)

\* The pass that emitted triangle t of an interior box's mesh.
PassOfTriangle(t) ==
    PlanePasses[CHOOSE i \in 1..6 :
                    /\ 2 * QuadsBeforePass(i) < t
                    /\ t <= 2 * QuadsBeforePass(i + 1)]

\* Triangle t faces away from the box centre, and along the axis of its
\* plane it faces the side of the plane: -A on a min plane, +A on a max plane.
FacesOutward(t) ==
    /\ Dot(GeometricNormal(t), FromBoxCentre(t)) > 0
    /\ GeometricNormal(t)[PassOfTriangle(t)[1]] * PassOfTriangle(t)[2] > 0

\* C15: every triangle emitted by the boundary closure pass faces outward:
\* for the everywhere-negative box, the geometric normal of each triangle has
\* a positive dot product with the vector from the box centre to the
\* triangle, on all six planes; the winding used for the max plane of an axis
\* is the mirror image of the winding used for its min plane.
C15_BoundaryTrianglesFaceOutward ==
    (Returned /\ call.config.generate_boundary_faces /\ RangeCubes # {} /\ InteriorBox) =>
        /\ NumTriangles = 2 * QuadsBeforePass(7)
        /\ \A t \in 1..NumTriangles : FacesOutward(t)

\* The unit quad at p of a plane orthogonal to axis a, as the set of its four
\* lattice points: p and its +1 neighbours along the two other axes.
UnitQuad(p, a) ==
    {p, [k \in 1..3 |-> p[k] + UnitStep(AxisB(a))[k]],
        [k \in 1..3 |-> p[k] + UnitStep(AxisC(a))[k]],
        [k \in 1..3 |-> p[k] + UnitStep(AxisB(a))[k] + UnitStep(AxisC(a))[k]]}

\* The unit quads of the six boundary planes: on axis a the cube layers min_a
\* and max_a - 1, and the four points inside [min, max).
BoundaryUnitQuads ==
    UNION {{UnitQuad(p, a) :
                p \in {q \in RangeCubes :
                          /\ q[a] = call.min[a] \/ q[a] = call.max[a] - 1
                          /\ q[AxisB(a)] + 1 < call.max[AxisB(a)]
                          /\ q[AxisC(a)] + 1 < call.max[AxisC(a)]}} :
           a \in 1..3}

\* The unit quads whose four lattice-point samples are all non-negative.
ExteriorUnitQuads == {u \in BoundaryUnitQuads : \A p \in u : SampleAt(p) >= 0}

\* The number of quads the surface pass emitted: those of the same call made
\* without boundary closure.
SurfaceQuads == Len(ChunkMesh(call.min, call.max).buf.indices) \div 6

\* C16: with generate_boundary_faces = true, faces are generated on the
\* boundaries of the sampling volume only where the SDF is negative: the
\* boundary pass emits no triangles for a unit quad of a boundary plane whose
\* four lattice-point samples are all non-negative, so it never adds faces
\* between vertices that the surface pass created in boundary-layer cubes of
\* an exterior region.
C16_NoBoundaryFaceOnExteriorQuad ==
    (Returned /\ call.config.generate_boundary_faces) =>
        \A k \in (SurfaceQuads + 1)..(Len(output.indices) \div 6) :
            QuadCubes(k) \notin ExteriorUnitQuads

\* s is a prefix of t.
IsPrefix(s, t) == Len(s) <= Len(t) /\ \A i \in 1..Len(s) : s[i] = t[i]

\* The same call made with the default configuration on the same buffer.
DefaultCall == surface_nets(call.sdf, call.dims, call.min, call.max, prior)

\* The mesh b extends the mesh a.
Extends(a, b) ==
    /\ IsPrefix(a.positions, b.positions)
    /\ IsPrefix(a.normals, b.normals)
    /\ IsPrefix(a.indices, b.indices)
    /\ IsPrefix(a.surface_points, b.surface_points)
    /\ IsPrefix(a.surface_strides, b.surface_strides)

\* C17: for the same samples, shape, min and max, the output with
\* generate_boundary_faces = true extends the output with
\* generate_boundary_faces = false: positions, normals, indices,
\* surface_points and surface_strides of the default call are each a prefix
\* of the corresponding sequence of the boundary-closure call, hence the
\* watertight index count is >= the default index count.
C17_BoundaryOutputExtendsDefault ==
    (Returned /\ call.config.generate_boundary_faces) =>
        /\ DefaultCall.status = "ok"
        /\ Extends(DefaultCall.buf, output)
        /\ Len(output.indices) >= Len(DefaultCall.buf.indices)

\* A boundary-closure call whose default call has vertices and quads, and
\* which added vertices and triangles to them.
C17_BoundaryAddedToSurfaceMesh ==
    /\ Returned
    /\ call.config.generate_boundary_faces
    /\ Len(DefaultCall.buf.positions) > 0
    /\ Len(DefaultCall.buf.indices) > 0
    /\ Len(output.positions) > Len(DefaultCall.buf.positions)
    /\ Len(output.indices) > Len(DefaultCall.buf.indices)

\* min and max are coordinates of the shape.
InsideShape ==
    \A k \in 1..3 : /\ 0 <= call.min[k] /\ call.min[k] < call.dims[k]
                    /\ 0 <= call.max[k] /\ call.max[k] < call.dims[k]

\* The sample indices estimate_surface_in_cube reads: the eight corner
\* strides of every cube of the loops of estimate_surface.
CubeCornerReads ==
    {CornerStride(call.dims, linearize(call.dims, p), i) : p \in RangeCubes, i \in 1..8}

\* The points make_all_quads iterates over: the surface points of the
\* surface pass.
SurfacePassPoints ==
    {DefaultCall.buf.surface_points[i] : i \in 1..Len(DefaultCall.buf.surface_points)}

\* The guard of make_all_quads for the edge from p along axis a.
QuadGuard(p, a) ==
    /\ p[AxisB(a)] # call.min[AxisB(a)]
    /\ p[AxisC(a)] # call.min[AxisC(a)]
    /\ (eval_max_plane \/ p[a] # call.max[a] - 1)

\* The sample indices maybe_make_quad reads: p1 and p2 of every call.
QuadEndpointReads ==
    UNION {{linearize(call.dims, e[1]),
            linearize(call.dims, e[1]) + AxisStride(call.dims, e[2])} :
           e \in {e \in SurfacePassPoints \X (1..3) : QuadGuard(e[1], e[2])}}

\* The stride_to_index entries maybe_make_quad reads: p1, p1 - axis_b_stride,
\* p1 - axis_c_stride and p1 - both, when the endpoint signs differ.
QuadIndexReads ==
    UNION {{linearize(call.dims, e[1]),
            linearize(call.dims, e[1]) - AxisStride(call.dims, AxisB(e[2])),
            linearize(call.dims, e[1]) - AxisStride(call.dims, AxisC(e[2])),
            linearize(call.dims, e[1]) - AxisStride(call.dims, AxisB(e[2]))
                                       - AxisStride(call.dims, AxisC(e[2]))} :
           e \in {e \in SurfacePassPoints \X (1..3) :
                     QuadGuard(e[1], e[2]) /\ SignChange(e[1], e[2])}}

\* The sample indices generate_boundary_vertices may read: the stride of a
\* cube in the first or last layer of an axis.
BoundarySampleReads ==
    IF call.config.generate_boundary_faces
    THEN {linearize(call.dims, p) :
            p \in {q \in RangeCubes :
                      \E k \in 1..3 : q[k] = call.min[k] \/ q[k] = call.max[k] - 1}}
    ELSE {}

SampleReads == CubeCornerReads \cup QuadEndpointReads \cup BoundarySampleReads

\* C18: for a row-major shape, a range inside the shape's dimensions and
\* arguments that satisfy both preconditions, every unchecked read of the
\* sample array (the eight corners of each cube of [min, max), the two edge
\* endpoints in quad emission, the boundary-cube sample in the closure pass)
\* uses an index < samples.len() that is the stride of a lattice point of
\* [min, max]; and every stride_to_index read in quad emission is the stride
\* of a cube inside [min, max), never a negative offset or a cube outside the
\* iterated region.
C18_UncheckedReadsInsideRange ==
    (ncalls > 0 /\ CheckedPreconditions /\ InsideShape) =>
        /\ outcome # "ub"
        /\ DefaultCall.status = "ok"
        /\ \A r \in SampleReads :
              /\ 0 <= r /\ r < Len(call.sdf)
              /\ \E q \in RangePoints : r = linearize(call.dims, q)
        /\ \A r \in QuadIndexReads :
              /\ 0 <= r /\ r < Len(output.stride_to_index)
              /\ \E q \in RangeCubes : r = linearize(call.dims, q)

\* A boundary-closure call that read the last sample of the array as a cube
\* corner, made quads and looked at boundary cubes.
C18_LastSampleRead ==
    /\ Returned
    /\ call.config.generate_boundary_faces
    /\ Len(call.sdf) - 1 \in CubeCornerReads
    /\ QuadIndexReads # {}
    /\ \E e \in SurfacePassPoints \X (1..3) : QuadGuard(e[1], e[2]) /\ ~SignChange(e[1], e[2])
    /\ BoundarySampleReads # {}

\* The cube p lies in the first or last cube layer of some axis.
InBoundaryLayer(p) == \E k \in 1..3 : p[k] = call.min[k] \/ p[k] = call.max[k] - 1

\* The cubes the boundary pass owes a vertex: boundary-layer cubes of
\* [min, max) whose stride_to_index entry is NULL_VERTEX after the surface
\* pass and whose own sample is strictly negative.
BoundaryVertexCubes ==
    {p \in RangeCubes :
        /\ InBoundaryLayer(p)
        /\ At(DefaultCall.buf.stride_to_index, linearize(call.dims, p)) = NULL_VERTEX
        /\ SampleAt(p) < 0}

\* The first plane the cube p matches in the order min-X, max-X, min-Y,
\* max-Y, min-Z, max-Z, as <<axis, side>>.
FirstPlane(p) ==
    PlanePasses[CHOOSE i \in 1..6 :
                    /\ p[PlanePasses[i][1]] = (IF PlanePasses[i][2] < 0
                                               THEN call.min[PlanePasses[i][1]]
                                               ELSE call.max[PlanePasses[i][1]] - 1)
                    /\ \A j \in 1..(i - 1) :
                          p[PlanePasses[j][1]] # (IF PlanePasses[j][2] < 0
                                                  THEN call.min[PlanePasses[j][1]]
                                                  ELSE call.max[PlanePasses[j][1]] - 1)]

\* Twice the position of p's boundary vertex on the plane <<a, side>>: min_A
\* or max_A on the plane's axis, the cube's coordinate + 0.5 on the others.
PlanePositionTwice(p, pl) ==
    [k \in 1..3 |-> IF k # pl[1] THEN 2 * p[k] + 1
                    ELSE IF pl[2] < 0 THEN 2 * call.min[k] ELSE 2 * call.max[k]]

\* Vertex i (1-based) is the boundary vertex of cube p: on p's first plane,
\* with that plane's outward unit normal, and recorded in the reverse map.
IsBoundaryVertexOf(i, p) ==
    /\ \A k \in 1..3 :
          2 * output.positions[i].n[k]
              = PlanePositionTwice(p, FirstPlane(p))[k] * output.positions[i].d
    /\ output.normals[i] =
          VInt([k \in 1..3 |-> IF k = FirstPlane(p)[1] THEN FirstPlane(p)[2] ELSE 0])
    /\ At(output.stride_to_index, linearize(call.dims, p)) = i - 1

\* The vertices the boundary pass added, as 1-based indices.
NewVertices == (Len(DefaultCall.buf.positions) + 1)..Len(output.positions)

====
